---- MODULE Spec2Model ----
(***************************************************************************)
(* Model of gopher-socket's per-connection engine (loop.go): one Channel   *)
(* with its outbound queue, liveness flag and header, the three goroutines *)
(* started for it (inLoop, outLoop, pinger), an application goroutine      *)
(* that calls Close, and the process-wide overflooded registry.            *)
(*                                                                         *)
(* Every statement of loop.go that reads or writes shared state is one     *)
(* step of the goroutine executing it, so that every interleaving the Go   *)
(* scheduler can produce is a behaviour of the model.  The channel's ack   *)
(* processor, whose file is not part of the sources at hand, is modelled   *)
(* from its specification and checked on its own (AckSpec).                *)
(***************************************************************************)
EXTENDS Integers, Sequences, FiniteSets, TLC

VARIABLES
    queueBufferSize, \* capacity of c.out (fixed at construction)
    out,             \* c.out: the buffered channel's contents, oldest first
    alive,           \* c.alive
    header,          \* c.header
    overflooded,     \* the package-level sync.Map, as a set of channels
    connCloses,      \* transport: number of conn.Close() calls received
    connections,     \* dispatcher: callLoopEvent(c, OnConnection) calls
    disconnections,  \* dispatcher: callLoopEvent(c, OnDisconnection) calls
    dispatches,      \* processIncomingMessage goroutines started
    pc,              \* position of every goroutine
    ret,             \* where a goroutine continues when closeChannel returns
    cause,           \* args of the goroutine's current closeChannel call
    outBufferLen,    \* outLoop's local
    msg,             \* outLoop's local
    nread,           \* packets the peer has delivered so far
    nticks,          \* ticks the ticker has delivered so far
    closeDeletes,    \* deleteOverflooded calls made by closeChannel
    ack,             \* c.ack: the ack processor's counter, waiters, timers
    slot,            \* what each Ack caller has received, by correlation id
    dropped          \* replies and timeouts the ack processor ignored

vars == <<queueBufferSize, out, alive, header, overflooded, connCloses,
          connections, disconnections, dispatches, pc, ret, cause,
          outBufferLen, msg, nread, nticks, closeDeletes, ack, slot, dropped>>

----------------------------------------------------------------------------
(* Bounds of the model *)

\* c.out is created with a capacity between MinQueueBufferSize and this
MaxQueueBufferSize == 5

\* packets the peer sends before it falls silent
MaxFrames == 2

\* ticks of the keepalive ticker before it falls silent
MaxTicks == 1

\* smallest capacity c.out is created with
MinQueueBufferSize == 4

\* Ack calls the application makes on the channel
MaxAcks == 2

\* late or repeated replies the peer sends before it falls silent
MaxDropped == 2

----------------------------------------------------------------------------
(* Names of the program *)

Chan == "c"

Reader == "inLoop"
Writer == "outLoop"
Pinger == "pinger"
App == "app"

Procs == {Reader, Writer, Pinger, App}
Closers == {Reader, Writer, App}

PingMessage == "2"
PongMessage == "3"
CloseMessage == "1"

ErrorWrongHeader == "Wrong header"
ErrorWrongPacket == "Wrong packet"
ErrorSocketOverflood == "socket overflood"
ErrorTransport == "transport error"
NoCause == "none"

\* an ack request frame, the replies a peer gives, and the result of an
\* expired deadline
AckMessage == "4"
AckIds == 1..MaxAcks
AckPayloads == {"r1", "r2"}
AckTimeout == "timeout"

MessageTypeOpen == "open"
MessageTypePing == "ping"
MessageTypePong == "pong"
MessageTypeEmit == "emit"
Undecodable == "undecodable"

\* The zero value of Header
ZeroHeader == [Sid |-> "", PingInterval |-> 0]

\* Payloads of Open packets: a JSON text is modelled by what json.Unmarshal
\* does with it.  "syntax" is invalid JSON; "type" is valid JSON whose
\* pingInterval is not a number.
Payloads ==
    { [json |-> "ok", Sid |-> "abc", PingInterval |-> 25],
      [json |-> "ok", Sid |-> "xyz", PingInterval |-> 60],
      [json |-> "type", Sid |-> "xyz", PingInterval |-> 0],
      [json |-> "syntax", Sid |-> "", PingInterval |-> 0] }

NoPayload == [json |-> "none", Sid |-> "", PingInterval |-> 0]

Packets ==
    { [Type |-> MessageTypeOpen, Source |-> p] : p \in Payloads }
    \cup { [Type |-> t, Source |-> NoPayload] :
             t \in {MessageTypePing, MessageTypePong, MessageTypeEmit, Undecodable} }

\* protocol.Decode: fails on a packet that is no engine.io frame
DecodeFails(pkg) == pkg.Type = Undecodable

\* json.Unmarshal(payload, &c.header): invalid JSON is rejected before any
\* field is written; a field of the wrong type is skipped, the others are
\* written, and the error is returned.
UnmarshalFails(payload) == payload.json # "ok"

\* (an Unmarshal that leaves the sid field alone)
Unmarshal_KeepSid(payload, h) ==
    IF payload.json = "ok"
    THEN [h EXCEPT !.PingInterval = payload.PingInterval]
    ELSE h

Unmarshal(payload, h) ==
    CASE payload.json = "ok" ->
            [Sid |-> payload.Sid, PingInterval |-> payload.PingInterval]
      [] payload.json = "type" ->
            [h EXCEPT !.Sid = payload.Sid]
      [] OTHER -> h

\* func (c *Channel) Id() string
Id == header.Sid

----------------------------------------------------------------------------
(* The buffered channel c.out *)

\* (a channel made without a buffer: a send needs outLoop waiting in its
\* receive)
CanSend_Unbuffered == pc[Writer] = "w_recv" /\ Len(out) = 0

\* a send on c.out proceeds iff the buffer has room
CanSend == Len(out) < queueBufferSize

\* a receive on c.out proceeds iff the buffer holds a value
CanRecv == Len(out) > 0

(* The liveness flag *)

IsAlive == alive

\* (the flag is flipped instead of set)
setAliveValue_Flip(value) == alive' = ~alive

setAliveValue(value) == alive' = value

(* The overflooded registry *)

deleteOverflooded(c) == overflooded' = overflooded \ {c}

storeOverflow(c) == overflooded' = overflooded \cup {c}

(* The transport *)

ConnClosed == connCloses > 0

----------------------------------------------------------------------------
TypeOK ==
    /\ queueBufferSize \in MinQueueBufferSize..MaxQueueBufferSize
    /\ out \in Seq({PingMessage, PongMessage, CloseMessage, AckMessage})
    /\ Len(out) <= queueBufferSize
    /\ alive \in BOOLEAN
    /\ overflooded \subseteq {Chan}
    /\ connCloses \in 0..3
    /\ connections \in 0..MaxFrames
    /\ disconnections \in 0..3
    /\ dispatches \in 0..MaxFrames
    /\ nread \in 0..MaxFrames
    /\ nticks \in 0..MaxTicks
    /\ ack.counter \in 0..MaxAcks
    /\ ack.resultWaiters \subseteq AckIds
    /\ ack.timers \subseteq AckIds
    /\ slot \in [AckIds -> Seq(AckPayloads \cup {AckTimeout})]
    /\ dropped \in 0..MaxDropped

Init ==
    /\ queueBufferSize \in MinQueueBufferSize..MaxQueueBufferSize
    /\ out = <<>>
    /\ alive = TRUE
    /\ header = ZeroHeader
    /\ overflooded = {}
    /\ connCloses = 0
    /\ connections = 0
    /\ disconnections = 0
    /\ dispatches = 0
    /\ pc = [p \in Procs |->
               CASE p = Reader -> "r_read"
                 [] p = Writer -> "w_len"
                 [] p = Pinger -> "p_tick"
                 [] OTHER -> "a_idle"]
    /\ ret = [p \in Closers |-> "done"]
    /\ cause = [p \in Closers |-> NoCause]
    /\ outBufferLen = 0
    /\ msg = ""
    /\ nread = 0
    /\ nticks = 0
    /\ closeDeletes = 0
    /\ ack = [counter |-> 0, resultWaiters |-> {}, timers |-> {}]
    /\ slot = [id \in AckIds |-> <<>>]
    /\ dropped = 0

Goto(p, l) ==
    /\ pc' = [pc EXCEPT ![p] = l]
    /\ UNCHANGED <<ret, cause>>

\* closeChannel(c, m, e) is called by goroutine p, which continues at l
\* when the call returns
Call(p, e, l) ==
    /\ pc' = [pc EXCEPT ![p] = "c_alive"]
    /\ cause' = [cause EXCEPT ![p] = e]
    /\ ret' = [ret EXCEPT ![p] = l]

\* return from closeChannel: its frame (args, return address) is gone
Return(p) ==
    /\ pc' = [pc EXCEPT ![p] = ret[p]]
    /\ cause' = [cause EXCEPT ![p] = NoCause]
    /\ ret' = [ret EXCEPT ![p] = "done"]

env == <<queueBufferSize, nread, nticks>>
locals == <<outBufferLen, msg>>
acks == <<ack, slot, dropped>>

----------------------------------------------------------------------------
(* closeChannel, executed by goroutine p *)

\* if !c.IsAlive() { return nil }
Close_IsAlive(p) ==
    /\ pc[p] = "c_alive"
    /\ IF ~IsAlive THEN Return(p) ELSE Goto(p, "c_conn")
    /\ UNCHANGED <<env, acks, locals, out, alive, header, overflooded,
                   connCloses, connections, disconnections, dispatches, closeDeletes>>

\* c.conn.Close()
Close_ConnClose(p) ==
    /\ pc[p] = "c_conn"
    /\ connCloses' = connCloses + 1
    /\ Goto(p, "c_set")
    /\ UNCHANGED <<env, acks, locals, out, alive, header, overflooded,
                   connections, disconnections, dispatches, closeDeletes>>

\* c.setAliveValue(false)
Close_SetAlive(p) ==
    /\ pc[p] = "c_set"
    /\ setAliveValue(FALSE)
    /\ Goto(p, "c_len")
    /\ UNCHANGED <<env, acks, locals, out, header, overflooded, connCloses,
                   connections, disconnections, dispatches, closeDeletes>>

\* for len(c.out) > 0 {
Close_Len(p) ==
    /\ pc[p] = "c_len"
    /\ IF Len(out) > 0 THEN Goto(p, "c_recv") ELSE Goto(p, "c_push")
    /\ UNCHANGED <<env, acks, locals, out, alive, header, overflooded,
                   connCloses, connections, disconnections, dispatches, closeDeletes>>

\*     <-c.out }
Close_Recv(p) ==
    /\ pc[p] = "c_recv"
    /\ CanRecv
    /\ out' = Tail(out)
    /\ Goto(p, "c_len")
    /\ UNCHANGED <<env, acks, locals, alive, header, overflooded, connCloses,
                   connections, disconnections, dispatches, closeDeletes>>

\* c.out <- protocol.CloseMessage
Close_Push(p) ==
    /\ pc[p] = "c_push"
    /\ CanSend
    /\ out' = Append(out, CloseMessage)
    /\ Goto(p, "c_event")
    /\ UNCHANGED <<env, acks, locals, alive, header, overflooded, connCloses,
                   connections, disconnections, dispatches, closeDeletes>>

\* what closeChannel, called by p, hands to the dispatcher at
\* m.callLoopEvent(c, OnDisconnection): the channel and the event's name
OnDisconnection == "disconnection"
DisconnectionArgs(p) == <<Chan, OnDisconnection>>

\* (a teardown that does not notify the dispatcher)
Close_Event_Skip(p) ==
    /\ pc[p] = "c_event"
    /\ Goto(p, "c_del")
    /\ UNCHANGED <<env, acks, locals, out, alive, header, overflooded,
                   connCloses, connections, disconnections, dispatches,
                   closeDeletes>>

\* m.callLoopEvent(c, OnDisconnection)
Close_Event(p) ==
    /\ pc[p] = "c_event"
    /\ disconnections' = disconnections + 1
    /\ Goto(p, "c_del")
    /\ UNCHANGED <<env, acks, locals, out, alive, header, overflooded,
                   connCloses, connections, dispatches, closeDeletes>>

\* deleteOverflooded(c); return nil
Close_Delete(p) ==
    /\ pc[p] = "c_del"
    /\ deleteOverflooded(Chan)
    /\ closeDeletes' = closeDeletes + 1
    /\ Return(p)
    /\ UNCHANGED <<env, acks, locals, out, alive, header, connCloses,
                   connections, disconnections, dispatches>>

closeChannel(p) ==
    \/ Close_IsAlive(p)
    \/ Close_ConnClose(p)
    \/ Close_SetAlive(p)
    \/ Close_Len(p)
    \/ Close_Recv(p)
    \/ Close_Push(p)
    \/ Close_Event(p)
    \/ Close_Delete(p)

----------------------------------------------------------------------------
(* inLoop *)

\* what inLoop does with a packet GetMessage returned: Decode, then the
\* switch on msg.Type up to its first operation on shared state
In_Handle(pkg) ==
    IF DecodeFails(pkg)
    THEN /\ Call(Reader, ErrorWrongPacket, "done")
         /\ UNCHANGED <<header, dispatches>>
    ELSE CASE pkg.Type = MessageTypeOpen ->
                /\ header' = Unmarshal(pkg.Source, header)
                /\ IF UnmarshalFails(pkg.Source)
                   THEN Call(Reader, ErrorWrongHeader, "r_conn_e")
                   ELSE Goto(Reader, "r_conn")
                /\ UNCHANGED dispatches
           [] pkg.Type = MessageTypePing ->
                /\ Goto(Reader, "r_pong")
                /\ UNCHANGED <<header, dispatches>>
           [] pkg.Type = MessageTypePong ->
                /\ Goto(Reader, "r_read")
                /\ UNCHANGED <<header, dispatches>>
           [] OTHER ->
                /\ dispatches' = dispatches + 1
                /\ Goto(Reader, "r_read")
                /\ UNCHANGED header

\* pkg, err := c.conn.GetMessage() returns the peer's next packet
In_Receive ==
    /\ pc[Reader] = "r_read"
    /\ ~ConnClosed
    /\ nread < MaxFrames
    /\ nread' = nread + 1
    /\ \E pkg \in Packets : In_Handle(pkg)
    /\ UNCHANGED <<queueBufferSize, nticks, acks, locals, out, alive,
                   overflooded, connCloses, connections, disconnections, closeDeletes>>

\* the peer sends one more Ping packet, beyond the MaxFrames packets of
\* In_Receive: a peer that keeps pinging
In_ReceivePing ==
    /\ pc[Reader] = "r_read"
    /\ ~ConnClosed
    /\ In_Handle([Type |-> MessageTypePing, Source |-> NoPayload])
    /\ UNCHANGED <<env, acks, locals, out, alive, overflooded, connCloses,
                   connections, disconnections, closeDeletes>>

\* GetMessage fails while the connection is open (the peer hung up)
In_ReadError ==
    /\ pc[Reader] = "r_read"
    /\ ~ConnClosed
    /\ Call(Reader, ErrorTransport, "done")
    /\ UNCHANGED <<env, acks, locals, out, alive, header, overflooded,
                   connCloses, connections, disconnections, dispatches, closeDeletes>>

\* GetMessage fails because conn.Close() has been called
In_ReadClosed ==
    /\ pc[Reader] = "r_read"
    /\ ConnClosed
    /\ Call(Reader, ErrorTransport, "done")
    /\ UNCHANGED <<env, acks, locals, out, alive, header, overflooded,
                   connCloses, connections, disconnections, dispatches, closeDeletes>>

\* m.callLoopEvent(c, OnConnection), reached past the if statement
\* ("r_conn") or out of its body, after closeChannel returned ("r_conn_e")
In_Connected ==
    /\ pc[Reader] \in {"r_conn", "r_conn_e"}
    /\ connections' = connections + 1
    /\ Goto(Reader, "r_read")
    /\ UNCHANGED <<env, acks, locals, out, alive, header, overflooded,
                   connCloses, disconnections, dispatches, closeDeletes>>

\* c.out <- protocol.PongMessage
In_Pong ==
    /\ pc[Reader] = "r_pong"
    /\ CanSend
    /\ out' = Append(out, PongMessage)
    /\ Goto(Reader, "r_read")
    /\ UNCHANGED <<env, acks, locals, alive, header, overflooded, connCloses,
                   connections, disconnections, dispatches, closeDeletes>>

inLoop == In_ReadClosed \/ In_Connected \/ In_Pong \/ closeChannel(Reader)

----------------------------------------------------------------------------
(* outLoop.  Its locals outBufferLen and msg are cleared once the        *)
(* iteration has made its last use of them (each is assigned again before *)
(* it is next read).                                                       *)

\* a threshold that gives the channel up one frame earlier
Saturated_Early(d) == d >= queueBufferSize - 2

\* (the threshold taken at the capacity itself)
Saturated_AtCapacity(d) == d >= queueBufferSize

\* outBufferLen >= queueBufferSize-1
Saturated(d) == d >= queueBufferSize - 1

\* (the comparison made inclusive)
Overflooding_Inclusive(d) == d >= queueBufferSize \div 2

\* outBufferLen > int(queueBufferSize/2)
Overflooding(d) == d > queueBufferSize \div 2

\* outBufferLen := len(c.out)
Out_Len ==
    /\ pc[Writer] = "w_len"
    /\ outBufferLen' = Len(out)
    /\ Goto(Writer, "w_branch")
    /\ UNCHANGED <<env, acks, msg, out, alive, header, overflooded, connCloses,
                   connections, disconnections, dispatches, closeDeletes>>

\* if outBufferLen >= queueBufferSize-1 { return closeChannel(...) }
Out_Overflow ==
    /\ pc[Writer] = "w_branch"
    /\ Saturated(outBufferLen)
    /\ Call(Writer, ErrorSocketOverflood, "done")
    /\ outBufferLen' = 0
    /\ UNCHANGED <<env, acks, msg, out, alive, header, overflooded, connCloses,
                   connections, disconnections, dispatches, closeDeletes>>

\* else if outBufferLen > int(queueBufferSize/2) { storeOverflow(c) }
Out_Store ==
    /\ pc[Writer] = "w_branch"
    /\ ~Saturated(outBufferLen)
    /\ Overflooding(outBufferLen)
    /\ storeOverflow(Chan)
    /\ outBufferLen' = 0
    /\ Goto(Writer, "w_recv")
    /\ UNCHANGED <<env, acks, msg, out, alive, header, connCloses,
                   connections, disconnections, dispatches, closeDeletes>>

\* else { deleteOverflooded(c) }
Out_Delete ==
    /\ pc[Writer] = "w_branch"
    /\ ~Saturated(outBufferLen)
    /\ ~Overflooding(outBufferLen)
    /\ deleteOverflooded(Chan)
    /\ outBufferLen' = 0
    /\ Goto(Writer, "w_recv")
    /\ UNCHANGED <<env, acks, msg, out, alive, header, connCloses,
                   connections, disconnections, dispatches, closeDeletes>>

\* an outLoop that does not know the close sentinel and writes whatever it
\* dequeues
Out_Recv_NoSentinel ==
    /\ pc[Writer] = "w_recv"
    /\ CanRecv
    /\ msg' = Head(out)
    /\ out' = Tail(out)
    /\ Goto(Writer, "w_write")
    /\ UNCHANGED <<env, acks, outBufferLen, alive, header, overflooded,
                   connCloses, connections, disconnections, dispatches, closeDeletes>>

\* msg := <-c.out; if msg == protocol.CloseMessage { return nil }
Out_Recv ==
    /\ pc[Writer] = "w_recv"
    /\ CanRecv
    /\ msg' = Head(out)
    /\ out' = Tail(out)
    /\ IF Head(out) = CloseMessage
       THEN Goto(Writer, "done")
       ELSE Goto(Writer, "w_write")
    /\ UNCHANGED <<env, acks, outBufferLen, alive, header, overflooded,
                   connCloses, connections, disconnections, dispatches, closeDeletes>>

\* err := c.conn.WriteMessage(msg) succeeds
Out_Write ==
    /\ pc[Writer] = "w_write"
    /\ ~ConnClosed
    /\ msg' = ""
    /\ Goto(Writer, "w_len")
    /\ UNCHANGED <<env, acks, outBufferLen, out, alive, header, overflooded,
                   connCloses, connections, disconnections, dispatches, closeDeletes>>

\* (an outLoop that drops the frame on a write error and goes on)
Out_WriteError_Continue ==
    /\ pc[Writer] = "w_write"
    /\ Goto(Writer, "w_len")
    /\ msg' = ""
    /\ UNCHANGED <<env, acks, outBufferLen, out, alive, header, overflooded,
                   connCloses, connections, disconnections, dispatches,
                   closeDeletes>>

\* WriteMessage fails (always, once conn.Close() has been called):
\* return closeChannel(c, m, err)
Out_WriteError ==
    /\ pc[Writer] = "w_write"
    /\ Call(Writer, ErrorTransport, "done")
    /\ msg' = ""
    /\ UNCHANGED <<env, acks, outBufferLen, out, alive, header, overflooded,
                   connCloses, connections, disconnections, dispatches, closeDeletes>>

outLoop ==
    \/ Out_Len
    \/ Out_Overflow
    \/ Out_Store
    \/ Out_Delete
    \/ Out_Recv
    \/ Out_Write
    \/ Out_WriteError
    \/ closeChannel(Writer)

----------------------------------------------------------------------------
(* pinger *)

\* <-ticker.C; if !c.IsAlive() { return }
\* (the receive from the pinger's own ticker touches no shared state, so it
\* is one step with the liveness check that follows it)
Ping_Tick ==
    /\ pc[Pinger] = "p_tick"
    /\ nticks < MaxTicks
    /\ nticks' = nticks + 1
    /\ IF ~IsAlive THEN Goto(Pinger, "done") ELSE Goto(Pinger, "p_send")
    /\ UNCHANGED <<queueBufferSize, nread, acks, locals, out, alive, header,
                   overflooded, connCloses, connections, disconnections,
                   dispatches, closeDeletes>>

\* c.out <- protocol.PingMessage
Ping_Send ==
    /\ pc[Pinger] = "p_send"
    /\ CanSend
    /\ out' = Append(out, PingMessage)
    /\ Goto(Pinger, "p_tick")
    /\ UNCHANGED <<env, acks, locals, alive, header, overflooded, connCloses,
                   connections, disconnections, dispatches, closeDeletes>>

pinger == Ping_Tick \/ Ping_Send

----------------------------------------------------------------------------
(* The application calls Close on the channel (README: c.Close()) *)

App_Close ==
    /\ pc[App] = "a_idle"
    /\ Call(App, NoCause, "done")
    /\ UNCHANGED <<env, acks, locals, out, alive, header, overflooded,
                   connCloses, connections, disconnections, dispatches, closeDeletes>>

----------------------------------------------------------------------------
(* The ack processor of the channel (c.ack): the table of result waiters,  *)
(* written by the Ack caller, by the dispatch of a reply and by the        *)
(* deadline timers, each under the table's lock                            *)

engine == <<queueBufferSize, alive, header, overflooded, connCloses,
            connections, disconnections, dispatches, pc, ret, cause,
            outBufferLen, msg, nread, nticks, closeDeletes>>

\* the waiter of id is resolved with result r: r goes to the caller's slot
\* and the waiter leaves the table
Resolve(id, r) ==
    /\ slot' = [slot EXCEPT ![id] = Append(@, r)]
    /\ ack' = [ack EXCEPT !.resultWaiters = @ \ {id}]

\* channel.Ack(method, args, timeout): a fresh id, its waiter registered
\* and its timer armed together with the send of the request frame
Ack_Send ==
    /\ ack.counter < MaxAcks
    /\ CanSend
    /\ LET id == ack.counter + 1
       IN  ack' = [counter |-> id,
                   resultWaiters |-> ack.resultWaiters \cup {id},
                   timers |-> ack.timers \cup {id}]
    /\ out' = Append(out, AckMessage)
    /\ UNCHANGED <<engine, slot, dropped>>

\* (a reply handler that does not look the waiter up)
Ack_Reply_Unchecked(id, payload) ==
    /\ id <= ack.counter
    /\ Len(slot[id]) < 2
    /\ Resolve(id, payload)
    /\ UNCHANGED <<engine, out, dropped>>

\* a reply frame carrying id is dispatched: it resolves the waiter of id if
\* there is one and is dropped otherwise
Ack_Reply(id, payload) ==
    /\ IF id \in ack.resultWaiters
       THEN /\ Resolve(id, payload)
            /\ UNCHANGED dropped
       ELSE /\ dropped < MaxDropped
            /\ dropped' = dropped + 1
            /\ UNCHANGED <<ack, slot>>
    /\ UNCHANGED <<engine, out>>

\* the deadline of id elapses: its timer fires, once; it resolves the waiter
\* with the timeout result if the waiter is still there
Ack_Timeout(id) ==
    /\ id \in ack.timers
    /\ IF id \in ack.resultWaiters
       THEN /\ slot' = [slot EXCEPT ![id] = Append(@, AckTimeout)]
            /\ ack' = [ack EXCEPT !.resultWaiters = @ \ {id},
                                  !.timers = @ \ {id}]
       ELSE /\ ack' = [ack EXCEPT !.timers = @ \ {id}]
            /\ UNCHANGED slot
    /\ UNCHANGED <<engine, out, dropped>>

AckNext ==
    \/ Ack_Send
    \/ \E id \in AckIds, payload \in AckPayloads : Ack_Reply(id, payload)
    \/ \E id \in AckIds : Ack_Timeout(id)

\* the ack processor on a channel whose loops are idle
AckSpec == Init /\ [][AckNext]_vars

----------------------------------------------------------------------------
Next ==
    \/ In_Receive
    \/ In_ReadError
    \/ inLoop
    \/ outLoop
    \/ pinger
    \/ App_Close
    \/ closeChannel(App)

Spec == Init /\ [][Next]_vars

\* The Go scheduler runs every runnable goroutine eventually; the ticker
\* fires.  Nothing obliges the peer to send a packet, the transport to fail
\* while it is open, or the application to call Close.
FairSpec ==
    /\ Spec
    /\ WF_vars(inLoop)
    /\ WF_vars(outLoop)
    /\ WF_vars(pinger)
    /\ WF_vars(closeChannel(App))

\* The session under load: the peer sends Ping packets, as many as it
\* likes, and nothing else
LoadNext ==
    \/ In_ReceivePing
    \/ In_ReadError
    \/ In_ReadClosed
    \/ In_Pong
    \/ closeChannel(Reader)
    \/ outLoop
    \/ pinger
    \/ App_Close
    \/ closeChannel(App)

LoadSpec == Init /\ [][LoadNext]_vars

\* (load, with every conn.WriteMessage call returning in the end)
LoadFairSpec ==
    /\ LoadSpec
    /\ WF_vars(inLoop)
    /\ WF_vars(outLoop)
    /\ WF_vars(pinger)
    /\ WF_vars(closeChannel(App))

\* the steps of outLoop that are its own: all but the return of
\* conn.WriteMessage, which is the transport's
outLoopSteps ==
    \/ Out_Len
    \/ Out_Overflow
    \/ Out_Store
    \/ Out_Delete
    \/ Out_Recv
    \/ closeChannel(Writer)

\* The scheduler's fairness alone.  loop.go sets no write deadline: a
\* conn.WriteMessage call to a peer that has stopped reading returns only
\* when the connection is closed, and then with an error.
Scheduling ==
    /\ WF_vars(inLoop)
    /\ WF_vars(outLoopSteps)
    /\ WF_vars(ConnClosed /\ Out_WriteError)
    /\ WF_vars(pinger)
    /\ WF_vars(closeChannel(App))

SchedFairSpec == Spec /\ Scheduling

StallFairSpec == LoadSpec /\ Scheduling

----------------------------------------------------------------------------
(* Properties *)

CloseLabels ==
    {"c_alive", "c_conn", "c_set", "c_len", "c_recv", "c_push", "c_event", "c_del"}

\* the labels of closeChannel's body, after the liveness check
BodyLabels == CloseLabels \ {"c_alive"}

InClose(p) == pc[p] \in CloseLabels

\* C1: however many goroutines call Close, the transport is closed, the
\* disconnect notification is fired and the registry removal is made at most
\* once, and at most one caller is ever inside the teardown body.
C1_TeardownOnce ==
    /\ connCloses <= 1
    /\ disconnections <= 1
    /\ closeDeletes <= 1
    /\ Cardinality({p \in Closers : pc[p] \in BodyLabels}) <= 1

\* C2: the liveness flag never goes from false to true, and every step that
\* clears it is the setAliveValue(false) of a goroutine inside closeChannel.
C2_AliveMonotonic ==
    [][ /\ (~alive => ~alive')
        /\ (alive /\ ~alive' =>
              \E p \in Closers : pc[p] = "c_set" /\ pc'[p] = "c_len") ]_vars

C2_Witness == ~alive /\ connCloses = 1 /\ closeDeletes = 1

\* C3: when closeChannel is called on a live session for a fatal condition,
\* the disconnect notification is eventually fired.
C3_FatalLeadsToDisconnect ==
    (\E p \in Closers : pc[p] = "c_alive" /\ cause[p] # NoCause /\ alive)
        ~> (disconnections > 0)

\* C4: every call of Close eventually returns.
C4_CloseReturns ==
    \A p \in Closers : (pc[p] = "c_alive") ~> ~InClose(p)

\* C5: when outLoop has observed a depth of at least queueBufferSize-1, its
\* next step calls Close with the overflow error, touching neither the queue
\* nor the transport, and from then on outLoop is inside Close or has
\* returned: it makes no dequeue and no write of its own.
C5_FailFast ==
    [][ /\ (pc[Writer] = "w_branch" /\ outBufferLen >= queueBufferSize - 1
              /\ pc'[Writer] # pc[Writer]) =>
                 /\ pc'[Writer] = "c_alive"
                 /\ cause'[Writer] = ErrorSocketOverflood
                 /\ ret'[Writer] = "done"
                 /\ out' = out
                 /\ msg' = msg
                 /\ overflooded' = overflooded
        /\ (cause[Writer] = ErrorSocketOverflood) =>
                 pc'[Writer] \in CloseLabels \cup {"done"} ]_vars

C5_Witness ==
    /\ cause[Writer] = ErrorSocketOverflood
    /\ pc[Writer] = "c_del"
    /\ disconnections = 1

\* C6: once the liveness flag is cleared, the only frame ever added to the
\* outbound queue is the terminal sentinel.
C6_NoEnqueueAfterClose ==
    [][ ~alive =>
          \/ Len(out') <= Len(out)
          \/ out' = Append(out, CloseMessage) ]_vars

C8_ClosedNotRegistered == closeDeletes > 0 => Chan \notin overflooded

\* C9: while the queue holds fewer than queueBufferSize frames, a goroutine
\* standing at a send on c.out can take that step at once.
C9_NonBlockingEnqueue ==
    Len(out) < queueBufferSize =>
        /\ (pc[Reader] = "r_pong" => ENABLED In_Pong)
        /\ (pc[Pinger] = "p_send" => ENABLED Ping_Send)
        /\ \A p \in Closers : pc[p] = "c_push" => ENABLED Close_Push(p)

C9_Witness ==
    /\ pc[Reader] = "r_pong"
    /\ pc[Pinger] = "p_send"
    /\ Len(out) > 0
    /\ pc[Writer] = "w_write"

\* C10: the connected notification is fired at most once for a session.
C10_ConnectedOnce == connections <= 1

\* C11: once Close has cleared the liveness flag, outLoop terminates; the
\* close sentinel it dequeues makes it return nil, and the sentinel is never
\* handed to conn.WriteMessage nor passed on as an error.
C11_WriterTerminates ==
    /\ [](pc[Writer] = "w_write" => msg # CloseMessage)
    /\ [][(pc[Writer] = "w_recv" /\ pc'[Writer] # "w_recv"
               /\ Head(out) = CloseMessage) =>
             (pc'[Writer] = "done" /\ cause'[Writer] = NoCause)]_vars
    /\ (~alive ~> pc[Writer] = "done")

\* outLoop has dequeued the sentinel of a Close another goroutine ran
C11_Witness ==
    /\ pc[Writer] = "done"
    /\ msg = CloseMessage
    /\ ~alive
    /\ closeDeletes = 1

\* C12 as stated: with capacity 4, the outLoop iteration that sampled 3
\* queued frames registers the channel and goes on to dequeue, and the
\* iteration that sampled 2 removes it from the registry.
C12_ScenarioA ==
    [][(queueBufferSize = 4 /\ pc[Writer] = "w_branch"
            /\ pc'[Writer] # "w_branch") =>
         /\ (outBufferLen = 3 =>
                (Chan \in overflooded' /\ pc'[Writer] = "w_recv" /\ alive'))
         /\ (outBufferLen = 2 => Chan \notin overflooded')]_vars

\* C12: the scenario holds with capacity 5: the iteration that sampled 3
\* registers the channel and goes on to dequeue, the iteration that sampled
\* 2 removes it.  With capacity 4 a sampled depth of 3 is queueBufferSize-1:
\* the iteration calls closeChannel with ErrorSocketOverflood and leaves the
\* registry alone; a sampled depth of 2 removes the channel.
C12_ScenarioA_Capacity5 ==
    [][(pc[Writer] = "w_branch" /\ pc'[Writer] # "w_branch") =>
         /\ (queueBufferSize = 5 /\ outBufferLen = 3) =>
                /\ Chan \in overflooded'
                /\ pc'[Writer] = "w_recv"
                /\ alive' = alive
         /\ (queueBufferSize \in {4, 5} /\ outBufferLen = 2) =>
                /\ Chan \notin overflooded'
                /\ pc'[Writer] = "w_recv"
         /\ (queueBufferSize = 4 /\ outBufferLen = 3) =>
                /\ pc'[Writer] = "c_alive"
                /\ cause'[Writer] = ErrorSocketOverflood
                /\ overflooded' = overflooded]_vars

\* capacity 5: registered by the iteration that sampled 3, one frame written,
\* the next iteration has sampled the 2 remaining frames
C12_Witness ==
    /\ queueBufferSize = 5
    /\ Chan \in overflooded
    /\ alive
    /\ pc[Writer] = "w_branch"
    /\ outBufferLen = 2

\* C13: at the step with which a closeChannel call finishes, the queue holds
\* the close sentinel and nothing else, whatever the other goroutines do.
C13_OnlySentinelAtFinish ==
    [][(\E p \in Closers : pc[p] = "c_del" /\ pc'[p] # "c_del") =>
         out' = <<CloseMessage>>]_vars

C15_AckExclusive ==
    [][ /\ \A id \in AckIds :
              /\ Len(slot'[id]) <= 1
              /\ slot'[id] # <<>> => id \notin ack'.resultWaiters
              /\ slot[id] # <<>> =>
                    /\ slot'[id] = slot[id]
                    /\ id \notin ack'.resultWaiters
              /\ (id \notin ack.resultWaiters /\ id <= ack.counter) =>
                    /\ slot'[id] = slot[id]
                    /\ id \notin ack'.resultWaiters
        /\ dropped' # dropped =>
              /\ ack'.resultWaiters = ack.resultWaiters
              /\ slot' = slot ]_vars

\* ack 1 was answered, its timer fired afterwards and a second reply came;
\* ack 2 timed out and its reply came late
C15_Witness ==
    /\ slot[1] = <<"r1">>
    /\ slot[2] = <<AckTimeout>>
    /\ ack.timers = {}
    /\ dropped = 2

\* C16: the header is written at most once and as a whole: it is the zero
\* Header or has all its fields set, and once it is set no step changes it.
C16_HeaderWriteOnce ==
    [][ /\ \/ header' = ZeroHeader
           \/ header'.Sid # "" /\ header'.PingInterval # 0
        /\ header # ZeroHeader => header' = header ]_vars

\* C17 as stated: the connected notification that follows an Open packet
\* whose payload failed to parse is fired on a closed session after the
\* disconnect notification.
C17_ConnectedAfterDisconnected ==
    [][(pc[Reader] = "r_conn_e" /\ pc'[Reader] # "r_conn_e") =>
         /\ ~alive
         /\ disconnections >= 1
         /\ connections' = connections + 1]_vars

\* C17: an Open packet whose payload fails to parse makes inLoop call
\* closeChannel with ErrorWrongHeader; when the call returns the session is
\* closed and inLoop fires the connected notification all the same.  The
\* disconnect notification has been fired before it when inLoop's own call
\* ran the teardown; when the call found the session closed by another
\* goroutine it returned at once, whether or not that goroutine has fired
\* the notification yet.
C17_ConnectedAfterHeaderError ==
    [][ /\ \A pkg \in Packets :
              ( /\ pc[Reader] = "r_read" /\ nread' = nread + 1
                /\ In_Handle(pkg)
                /\ pkg.Type = MessageTypeOpen
                /\ UnmarshalFails(pkg.Source) ) =>
                 /\ pc'[Reader] = "c_alive"
                 /\ cause'[Reader] = ErrorWrongHeader
                 /\ ret'[Reader] = "r_conn_e"
        /\ (ret[Reader] = "r_conn_e" /\ pc'[Reader] = "r_conn_e") =>
              /\ ~alive'
              /\ pc[Reader] = "c_del" => disconnections' >= 1
        /\ (pc[Reader] = "r_conn_e" /\ pc'[Reader] # "r_conn_e") =>
              /\ ~alive
              /\ connections' = connections + 1
              /\ disconnections' = disconnections
              /\ pc'[Reader] = "r_read" ]_vars

\* the only packet was an Open with a pingInterval of the wrong type; the
\* session was torn down and the connected notification fired
C17_Witness ==
    /\ nread = 1
    /\ header = [Sid |-> "xyz", PingInterval |-> 0]
    /\ connections = 1
    /\ disconnections = 1
    /\ ~alive
    /\ pc[Reader] = "done"

\* C18: a full queue leads to the session being closed, and a goroutine
\* that stands at a send on the full queue (inLoop with a Pong, the pinger
\* with a Ping) gets past it, whatever outLoop is doing at the time.
C18_ProducersProceed ==
    /\ (Len(out) = queueBufferSize) ~> ~alive
    /\ (pc[Reader] = "r_pong" /\ Len(out) = queueBufferSize)
           ~> (pc[Reader] # "r_pong")
    /\ (pc[Pinger] = "p_send" /\ Len(out) = queueBufferSize)
           ~> (pc[Pinger] # "p_send")

\* C19: the disconnect notification carries the cause that the closeChannel
\* call firing it was given.
C19_DisconnectCarriesCause ==
    [][\A p \in Closers :
         (pc[p] = "c_event" /\ pc'[p] # "c_event" /\ cause[p] # NoCause) =>
            \E i \in 1..Len(DisconnectionArgs(p)) :
               DisconnectionArgs(p)[i] = cause[p]]_vars

\* C20 as stated: once conn.Close() has been called, outLoop does not reach
\* its conn.WriteMessage call any more.
C20_NoSendAfterClose ==
    [][(ConnClosed /\ pc'[Writer] = "w_write") => pc[Writer] = "w_write"]_vars

\* C20: no frame reaches the transport once conn.Close() has been called.
\* outLoop may still call conn.WriteMessage for a frame it holds; the call
\* fails, outLoop passes the error to closeChannel and returns from there
\* without another dequeue.
C20_NoWriteAfterClose ==
    [][(ConnClosed /\ pc[Writer] = "w_write" /\ pc'[Writer] # "w_write") =>
         /\ pc'[Writer] = "c_alive"
         /\ cause'[Writer] = ErrorTransport
         /\ ret'[Writer] = "done"
         /\ out' = out]_vars

\* outLoop holds a Pong it dequeued and the connection has been closed by
\* another goroutine, which is still draining
C20_Witness ==
    /\ ConnClosed
    /\ pc[Writer] = "w_write"
    /\ msg = PongMessage
    /\ \E p \in Closers \ {Writer} : pc[p] = "c_recv"

====
